---- MODULE Spec2Model ----
(***************************************************************************)
(* meshguard-rs: the packer (crates/pack), its permutation generator and   *)
(* the quantizer (crates/quantize), as state machines.                     *)
(*                                                                         *)
(* A u64 is a tuple of 8 bytes, least significant first (TLC's integers    *)
(* are 32 bits wide, so the 64-bit generator state is kept in limbs and    *)
(* every operation on it is computed modulo 2^64 on the limbs).            *)
(* Vectors are sequences; At(v, i) reads the source's 0-based v[i].        *)
(* An f32 or f64 is a record holding its exact value; every operation     *)
(* rounds as IEEE 754 does (to nearest, ties to even), with mantissas of  *)
(* any size kept as digit sequences.                                      *)
(***************************************************************************)
EXTENDS Integers, Sequences, FiniteSets

\* ------------------------------------------------------------------ bounds
\* Largest vertex count of a packed mesh.
MaxVertices == 3

\* Longest index buffer handed to the packer.
MaxIndices == 2

\* Longest permutation handed to inverse_permutation on its own.
MaxPermLen == 4

\* Most vertices handed to quantize_positions.
MaxPositions == 3

\* Most normals handed to encode_normals_oct.
MaxNormals == 2

\* ------------------------------------------------------- 64-bit arithmetic
\* Bytes of a u64 and bits of a byte.
U64Bytes == 8
ByteBits == 8

\* usize is 64 bits wide on the targets the tool is built for: `as usize`
\* keeps the low UsizeBytes bytes of a u64.
UsizeBytes == 8

Pow2(k) == <<1, 2, 4, 8, 16, 32, 64, 128, 256>>[k + 1]

At(v, i) == v[i + 1]

\* A function on 1..n is the sequence of its values: f, with every value
\* computed once.
AsSeq(f) == f \o <<>>

\* Byte j (1-based) of x, and 0 outside the word: what a shift brings in.
ByteOrZero(x, j) == IF j >= 1 /\ j <= U64Bytes THEN x[j] ELSE 0

RECURSIVE XorBits(_, _, _)

\* Bitwise xor of the low k bits of a and b.
XorBits(a, b, k) ==
    IF k = 0 THEN 0
    ELSE ((a + b) % 2) + 2 * XorBits(a \div 2, b \div 2, k - 1)

\* a ^ b on u64.
Xor64(a, b) == AsSeq([j \in 1..U64Bytes |-> XorBits(a[j], b[j], ByteBits)])

\* a >> k on u64 (logical shift, zeros come in at the top).
Shr64(a, k) ==
    LET q == k \div ByteBits
        r == k % ByteBits
    IN  AsSeq([j \in 1..U64Bytes |->
            (ByteOrZero(a, j + q) \div Pow2(r))
            + (ByteOrZero(a, j + q + 1) % Pow2(r)) * Pow2(ByteBits - r)])

\* a << k on u64 (bits shifted past bit 63 are dropped).
Shl64(a, k) ==
    LET q == k \div ByteBits
        r == k % ByteBits
    IN  AsSeq([j \in 1..U64Bytes |->
            ((ByteOrZero(a, j - q) * Pow2(r)) % Pow2(ByteBits))
            + (ByteOrZero(a, j - q - 1) \div Pow2(ByteBits - r))])

RECURSIVE ColumnSum(_, _, _, _)

\* Sum of a[x] * c[j + 1 - x] for x = 1..upto: column j of the long product.
ColumnSum(a, c, j, upto) ==
    IF upto = 0 THEN 0
    ELSE a[upto] * c[j + 1 - upto] + ColumnSum(a, c, j, upto - 1)

RECURSIVE CarryBytes(_, _, _, _)

\* Bytes j..8 of the product a * c, given the carry into column j.
CarryBytes(a, c, j, carry) ==
    IF j > U64Bytes THEN <<>>
    ELSE LET t == ColumnSum(a, c, j, j) + carry
         IN  <<t % Pow2(ByteBits)>> \o CarryBytes(a, c, j + 1, t \div Pow2(ByteBits))

\* a.wrapping_mul(c): the low 64 bits of the product.
WrappingMul(a, c) == CarryBytes(a, c, 1, 0)

RECURSIVE ModFrom(_, _, _)

\* The value of bytes j..8 of x (byte j the lowest), modulo m.
ModFrom(x, m, j) ==
    IF j > U64Bytes THEN 0
    ELSE (ModFrom(x, m, j + 1) * Pow2(ByteBits) + x[j]) % m

\* x % m for a u64 x and a small m > 0.
Mod64(x, m) == ModFrom(x, m, 1)

\* `x as usize`.
AsUsize(x) == AsSeq([j \in 1..U64Bytes |-> IF j <= UsizeBytes THEN x[j] ELSE 0])

Zero64 == AsSeq([j \in 1..U64Bytes |-> 0])

\* 0x9E3779B97F4A7C15, the state a zero seed is replaced by.
SEED_FALLBACK == <<21, 124, 74, 127, 185, 121, 55, 158>>

\* 0x2545F4914F6CDD1D, the output multiplier.
MULTIPLIER == <<29, 221, 108, 79, 145, 244, 69, 37>>

\* ------------------------------------------------- natural numbers
\* A natural number of any size is the sequence of its digits in base 2^15,
\* lowest first, with no leading zero digit (so 0 is the empty sequence):
\* the mantissas of f32 and f64 arithmetic do not fit TLC's 32-bit integers.
LimbBase == 2^15

\* The number of bits of n >= 0: 0 for 0.
IntBitLen(n) == Cardinality({k \in 0..30 : 2^k <= n})

\* Bits of a digit.
LimbBits == IntBitLen(LimbBase) - 1

Limb(a, j) == IF j >= 1 /\ j <= Len(a) THEN a[j] ELSE 0

\* The larger and the smaller of two integers.
Larger(x, y) == IF x >= y THEN x ELSE y
Smaller(x, y) == IF x <= y THEN x ELSE y

\* a without its leading zero digits: a up to its highest nonzero digit.
BigNorm(a) ==
    IF \A j \in 1..Len(a) : a[j] = 0 THEN <<>>
    ELSE SubSeq(a, 1, CHOOSE j \in 1..Len(a) :
                          a[j] # 0 /\ \A k \in (j + 1)..Len(a) : a[k] = 0)

RECURSIVE BigFromInt(_)
BigFromInt(n) ==
    IF n = 0 THEN <<>> ELSE <<n % LimbBase>> \o BigFromInt(n \div LimbBase)

RECURSIVE BigToInt(_)
\* The number as a TLC integer (for numbers below 2^31).
BigToInt(a) ==
    IF a = <<>> THEN 0 ELSE a[1] + LimbBase * BigToInt(Tail(a))

\* A carry enters digit j of a + b: a lower pair of digits overflows and every
\* pair between it and j passes the carry on.
CarryInto(a, b, j) ==
    \E k \in 1..(j - 1) :
        /\ Limb(a, k) + Limb(b, k) >= LimbBase
        /\ \A l \in (k + 1)..(j - 1) : Limb(a, l) + Limb(b, l) = LimbBase - 1

\* a + b, for sequences of digits a and b.
BigAdd(a, b) ==
    BigNorm(AsSeq([j \in 1..(Larger(Len(a), Len(b)) + 1) |->
        (Limb(a, j) + Limb(b, j) + (IF CarryInto(a, b, j) THEN 1 ELSE 0)) % LimbBase]))

\* A borrow is taken from digit j of a - b.
BorrowFrom(a, b, j) ==
    \E k \in 1..(j - 1) :
        /\ Limb(a, k) < Limb(b, k)
        /\ \A l \in (k + 1)..(j - 1) : Limb(a, l) = Limb(b, l)

\* a - b, for a >= b.
BigSub(a, b) ==
    IF a = b THEN <<>>
    ELSE BigNorm(AsSeq([j \in 1..Len(a) |->
        (LimbBase + a[j] - Limb(b, j) - (IF BorrowFrom(a, b, j) THEN 1 ELSE 0)) % LimbBase]))

\* -1, 0 or 1 as a is below, equal to or above b.
BigCmp(a, b) ==
    IF Len(a) > Len(b) THEN 1
    ELSE IF Len(a) < Len(b) THEN -1
    ELSE IF a = b THEN 0
    ELSE LET j == CHOOSE x \in 1..Len(a) :
                      a[x] # b[x] /\ \A y \in (x + 1)..Len(a) : a[y] = b[y]
         IN  IF a[j] > b[j] THEN 1 ELSE -1

\* The number whose place j is worth col[j], each below LimbBase^2: the low
\* halves of the places plus their high halves one place up.
BigCarried(col) ==
    BigAdd(AsSeq([c \in 1..Len(col) |-> col[c] % LimbBase]),
           <<0>> \o AsSeq([c \in 1..Len(col) |-> col[c] \div LimbBase]))

\* a * d for a digit d.
BigMulLimb(a, d) ==
    IF a = <<>> \/ d = 0 THEN <<>>
    ELSE BigCarried(AsSeq([j \in 1..Len(a) |-> a[j] * d]))

RECURSIVE BigColumn(_, _, _, _)
\* What the products of digits k.. of a with the digits of b add to place c:
\* the low halves of the products of that place and the high halves of the
\* place below.
BigColumn(a, b, c, k) ==
    IF k > Len(a) THEN 0
    ELSE ((a[k] * Limb(b, c + 1 - k)) % LimbBase)
         + ((a[k] * Limb(b, c - k)) \div LimbBase)
         + BigColumn(a, b, c, k + 1)

\* a * b.
BigMul(a, b) ==
    IF a = <<>> \/ b = <<>> THEN <<>>
    ELSE BigCarried(AsSeq([c \in 1..(Len(a) + Len(b)) |-> BigColumn(a, b, c, 1)]))

\* a * 2^k.
BigShl(a, k) ==
    IF a = <<>> THEN <<>>
    ELSE [j \in 1..(k \div LimbBits) |-> 0] \o BigMulLimb(a, 2^(k % LimbBits))

\* a \div 2^k.
BigShr(a, k) ==
    LET q == k \div LimbBits
        r == k % LimbBits
    IN  IF q >= Len(a) THEN <<>>
        ELSE BigNorm(AsSeq([j \in 1..(Len(a) - q) |->
                (a[j + q] \div 2^r) + (Limb(a, j + q + 1) % 2^r) * 2^(LimbBits - r)]))

\* Bit k (0 the lowest) of a.
BigBit(a, k) == (Limb(a, (k \div LimbBits) + 1) \div 2^(k % LimbBits)) % 2

\* The low k bits of a are all zero.
BigLowZero(a, k) ==
    /\ \A j \in 1..Smaller(k \div LimbBits, Len(a)) : a[j] = 0
    /\ Limb(a, (k \div LimbBits) + 1) % 2^(k % LimbBits) = 0

\* The number of bits of a: 0 for 0.
BigBitLen(a) ==
    IF a = <<>> THEN 0 ELSE LimbBits * (Len(a) - 1) + IntBitLen(a[Len(a)])

\* The number of zero bits below the lowest set bit of a # 0: those of the
\* zero digits below its lowest nonzero digit j, and those of digit j.
BigTrailingZeros(a) ==
    LET j == CHOOSE x \in 1..Len(a) : a[x] # 0 /\ \A y \in 1..(x - 1) : a[y] = 0
    IN  LimbBits * (j - 1) + Cardinality({k \in 1..LimbBits : a[j] % 2^k = 0})

\* The digit rem \div b, for rem < b * LimbBase and a divisor b whose highest
\* digit is at least LimbBase / 2: the quotient of the two highest digits of
\* rem by the highest digit of b is the digit or above it by at most 2.
QuotientDigit(rem, b) ==
    LET n == Len(b)
        est == Smaller(LimbBase - 1, (Limb(rem, n + 1) * LimbBase + Limb(rem, n)) \div b[n])
    IN  est - Cardinality({k \in 0..1 : est >= k /\ BigCmp(BigMulLimb(b, est - k), rem) > 0})

\* The quotient q with digit d put below it, and what is left of rem.
WithDigit(q, rem, b, d) == [q |-> <<d>> \o q, r |-> BigSub(rem, BigMulLimb(b, d))]

\* One step of the long division by b: the quotient and remainder so far,
\* and the next digit of the dividend.
DivideDigit(above, digit, b) ==
    IF above.r = <<>> /\ digit = 0 THEN [q |-> <<0>> \o above.q, r |-> <<>>]
    ELSE WithDigit(above.q, <<digit>> \o above.r, b,
                   QuotientDigit(<<digit>> \o above.r, b))

RECURSIVE BigDivFrom(_, _, _)
\* Long division of a by b: quotient and remainder of digits j..Len(a) of a.
\* The highest Len(b) - 1 digits of a are below b.
BigDivFrom(a, b, j) ==
    IF j > Len(a) - Len(b) + 1
    THEN [q |-> <<>>, r |-> BigNorm(SubSeq(a, j, Len(a)))]
    ELSE DivideDigit(BigDivFrom(a, b, j + 1), a[j], b)

\* The quotient and remainder d of a division scaled by 2^sh.
Unscaled(d, sh) == [q |-> BigNorm(d.q), r |-> BigShr(d.r, sh)]

\* Quotient and remainder of a by b # 0: both are first scaled to bring the
\* highest digit of b to LimbBase / 2 or above.
BigDivMod(a, b) ==
    Unscaled(BigDivFrom(BigShl(a, LimbBits - IntBitLen(b[Len(b)])),
                        BigShl(b, LimbBits - IntBitLen(b[Len(b)])), 1),
             LimbBits - IntBitLen(b[Len(b)]))

\* One step of Newton's iteration for the square root of a, from x.
NewtonStep(a, x) == BigShr(BigAdd(x, BigDivMod(a, x).q), 1)

RECURSIVE BigSqrtFrom(_, _, _)
\* The integer square root of a by Newton's iteration: x is at or above the
\* root and y is the step from x.
BigSqrtFrom(a, x, y) ==
    IF BigCmp(y, x) >= 0 THEN x ELSE BigSqrtFrom(a, y, NewtonStep(a, y))

\* The largest root with root * root <= a, for a # 0.
BigSqrt(a) ==
    BigSqrtFrom(a, BigShl(<<1>>, (BigBitLen(a) + 1) \div 2 + 1),
                BigShl(<<1>>, (BigBitLen(a) + 1) \div 2))

\* ---------------------------------------------- IEEE 754 arithmetic
\* A float is NaN, an infinity, a zero (each with its sign) or the finite
\* nonzero number (-1)^neg * m * 2^e with m odd. A format gives the precision
\* p in bits and the exponent range of the normal numbers.
F32 == [p |-> 24, emin |-> -126, emax |-> 127]
F64 == [p |-> 53, emin |-> -1022, emax |-> 1023]

NaN == [k |-> "nan", neg |-> FALSE, m |-> <<>>, e |-> 0]
Inf(neg) == [k |-> "inf", neg |-> neg, m |-> <<>>, e |-> 0]
Zero(neg) == [k |-> "zero", neg |-> neg, m |-> <<>>, e |-> 0]

\* The finite number (-1)^neg * m * 2^e for any m, in its one representation.
Finite(neg, m, e) ==
    IF m = <<>> THEN Zero(neg)
    ELSE [k |-> "fin", neg |-> neg, m |-> BigShr(m, BigTrailingZeros(m)),
          e |-> e + BigTrailingZeros(m)]

\* The integer n as a float (exact).
FromInt(n) == Finite(n < 0, BigFromInt(IF n < 0 THEN -n ELSE n), 0)

\* m \div 2^sh rounded to nearest, ties to even: kept is m \div 2^sh, and
\* sticky tells of a positive amount below m's last bit.
Nearest(m, sh, sticky, kept) ==
    IF /\ BigBit(m, sh - 1) = 1
       /\ \/ ~BigLowZero(m, sh - 1)
          \/ sticky
          \/ BigBit(kept, 0) = 1
    THEN BigAdd(kept, <<1>>)
    ELSE kept

\* (-1)^neg * m * 2^e once rounded: an infinity when above the format's range.
Packed(fmt, neg, m, e) ==
    IF m = <<>> THEN Zero(neg)
    ELSE IF e + BigBitLen(m) - 1 > fmt.emax THEN Inf(neg)
    ELSE Finite(neg, m, e)

\* (-1)^neg * m * 2^e rounded to multiples of 2^qe.
Rounded(fmt, neg, m, e, sticky, qe) ==
    IF qe <= e THEN Packed(fmt, neg, m, e)
    ELSE Packed(fmt, neg, Nearest(m, qe - e, sticky, BigShr(m, qe - e)), qe)

\* (-1)^neg * m * 2^e, plus (when sticky) a positive amount below one unit of
\* m's last bit, rounded to the nearest number of the format, ties to even;
\* too large a result is an infinity, a result below the normal range is
\* rounded to the subnormal grid. With sticky, m holds at least p + 2 bits.
RoundTo(fmt, neg, m, e, sticky) ==
    IF m = <<>> THEN Zero(neg)
    ELSE Rounded(fmt, neg, m, e, sticky,
                 Larger(e + BigBitLen(m) - 1, fmt.emin) - fmt.p + 1)

\* x as f32, x as f64: the nearest number of the format.
Cast(fmt, x) ==
    IF x.k = "fin" THEN RoundTo(fmt, x.neg, x.m, x.e, FALSE) ELSE x

FNeg(x) == IF x.k = "nan" THEN x ELSE [x EXCEPT !.neg = ~x.neg]
FAbs(x) == IF x.k = "nan" THEN x ELSE [x EXCEPT !.neg = FALSE]

\* -1, 0 or 1 as |x| is below, equal to or above |y|, for finite nonzero x, y.
MagCmp(x, y) ==
    BigCmp(BigShl(x.m, x.e - Smaller(x.e, y.e)), BigShl(y.m, y.e - Smaller(x.e, y.e)))

\* x < y as IEEE 754 compares: false when either is NaN, -0 = +0.
FLt(x, y) ==
    IF x.k = "nan" \/ y.k = "nan" THEN FALSE
    ELSE IF x.k = "zero" /\ y.k = "zero" THEN FALSE
    ELSE IF x.k = "zero" THEN ~y.neg
    ELSE IF y.k = "zero" THEN x.neg
    ELSE IF x.neg # y.neg THEN x.neg
    ELSE IF x.k = "inf" THEN (x.neg /\ y.k # "inf")
    ELSE IF y.k = "inf" THEN ~y.neg
    ELSE MagCmp(x, y) = (IF x.neg THEN 1 ELSE -1)

FGt(x, y) == FLt(y, x)

\* (-1)^xneg * mx * 2^e + (-1)^yneg * my * 2^e in the format, mx and my not
\* both 0: an exact zero sum is +0.
SignedSum(fmt, xneg, mx, yneg, my, e) ==
    IF xneg # yneg /\ mx = my THEN Zero(FALSE)
    ELSE RoundTo(fmt,
                 IF xneg = yneg \/ BigCmp(mx, my) = 1 THEN xneg ELSE yneg,
                 IF xneg = yneg THEN BigAdd(mx, my)
                 ELSE IF BigCmp(mx, my) = 1 THEN BigSub(mx, my)
                 ELSE BigSub(my, mx),
                 e, FALSE)

\* The exponent the mantissas of x and y are aligned to (a zero has none).
AlignedTo(x, y) ==
    IF x.k = "zero" THEN y.e ELSE IF y.k = "zero" THEN x.e ELSE Smaller(x.e, y.e)

\* x + y in the format.
FAdd(fmt, x, y) ==
    IF x.k = "nan" \/ y.k = "nan" THEN NaN
    ELSE IF x.k = "inf" THEN (IF y.k = "inf" /\ y.neg # x.neg THEN NaN ELSE x)
    ELSE IF y.k = "inf" THEN y
    ELSE IF x.k = "zero" /\ y.k = "zero" THEN Zero(x.neg /\ y.neg)
    ELSE SignedSum(fmt, x.neg, BigShl(x.m, x.e - AlignedTo(x, y)),
                   y.neg, BigShl(y.m, y.e - AlignedTo(x, y)), AlignedTo(x, y))

\* x - y in the format.
FSub(fmt, x, y) == FAdd(fmt, x, FNeg(y))

\* x * y in the format.
FMul(fmt, x, y) ==
    IF x.k = "nan" \/ y.k = "nan" THEN NaN
    ELSE IF (x.k = "inf" /\ y.k = "zero") \/ (x.k = "zero" /\ y.k = "inf") THEN NaN
    ELSE IF x.k = "inf" \/ y.k = "inf" THEN Inf(x.neg # y.neg)
    ELSE IF x.k = "zero" \/ y.k = "zero" THEN Zero(x.neg # y.neg)
    ELSE RoundTo(fmt, x.neg # y.neg, BigMul(x.m, y.m), x.e + y.e, FALSE)

\* The quotient d.q * 2^e, with remainder d.r, in the format.
QuotientRounded(fmt, neg, d, e) == RoundTo(fmt, neg, d.q, e, d.r # <<>>)

\* The bits the mantissa of x is shifted up by before it is divided by that of
\* y: enough for the quotient to hold p + 2 bits.
QuotientShift(fmt, x, y) == Larger(0, fmt.p + 2 + BigBitLen(y.m) - BigBitLen(x.m))

\* x / y in the format.
FDiv(fmt, x, y) ==
    IF x.k = "nan" \/ y.k = "nan" THEN NaN
    ELSE IF (x.k = "inf" /\ y.k = "inf") \/ (x.k = "zero" /\ y.k = "zero") THEN NaN
    ELSE IF x.k = "inf" \/ y.k = "zero" THEN Inf(x.neg # y.neg)
    ELSE IF x.k = "zero" \/ y.k = "inf" THEN Zero(x.neg # y.neg)
    ELSE QuotientRounded(fmt, x.neg # y.neg,
                         BigDivMod(BigShl(x.m, QuotientShift(fmt, x, y)), y.m),
                         x.e - y.e - QuotientShift(fmt, x, y))

\* root * 2^e in the format, for the integer square root of a.
RootRounded(fmt, a, root, e) == RoundTo(fmt, FALSE, root, e, BigMul(root, root) # a)

\* The bits the mantissa of x is shifted up by before its root is taken: enough
\* for the root to hold p + 2 bits, and leaving an even exponent.
RootShift(fmt, x) ==
    Larger(0, 2 * (fmt.p + 2) - BigBitLen(x.m))
    + ((x.e - Larger(0, 2 * (fmt.p + 2) - BigBitLen(x.m))) % 2)

\* x.sqrt() in the format.
FSqrt(fmt, x) ==
    IF x.k = "nan" THEN NaN
    ELSE IF x.k = "zero" THEN x
    ELSE IF x.neg THEN NaN
    ELSE IF x.k = "inf" THEN x
    ELSE RootRounded(fmt, BigShl(x.m, RootShift(fmt, x)),
                     BigSqrt(BigShl(x.m, RootShift(fmt, x))),
                     (x.e - RootShift(fmt, x)) \div 2)

\* A signum that is 0.0 at either zero.
SignumZero(x) ==
    IF x.k = "nan" THEN NaN
    ELSE IF x.k = "zero" THEN Zero(FALSE)
    ELSE FromInt(IF x.neg THEN -1 ELSE 1)

\* x.signum(): 1.0 for a positive number, +0.0 and +inf, -1.0 for a negative
\* number, -0.0 and -inf, NaN for NaN.
FSignum(x) == IF x.k = "nan" THEN NaN ELSE FromInt(IF x.neg THEN -1 ELSE 1)

\* x.round() as an integer, for x.round() within TLC's integers: to the
\* nearest integer, halves away from zero; NaN casts to 0.
RoundToInt(x) ==
    IF x.k \in {"nan", "zero"} THEN 0
    ELSE (IF x.neg THEN -1 ELSE 1)
         * (IF x.e >= 0 THEN BigToInt(BigShl(x.m, x.e))
            ELSE BigToInt(BigShr(x.m, -x.e)) + BigBit(x.m, -x.e - 1))

\* ----------------------------------------------------------------- state
VARIABLES
    pc,            \* where the running call stands
    qpos,          \* QuantizedPositions: returned by quantize_positions, handed to the packer
    qnor,          \* QuantizedNormalsOct: returned by encode_normals_oct, handed to the packer
    quv,           \* QuantizedUVs handed to the packer
    indices,       \* Option<&[u32]>: [some |-> BOOLEAN, v |-> the buffer]
    perm_seed,     \* u64
    vertex_count,  \* qpos.data.len() / 3
    p,             \* permutation_fy: the vector being shuffled (perm once returned)
    s,             \* permutation_fy: the generator state
    draw,          \* permutation_fy: the value the last next_u64() returned
    r,             \* permutation_fy: the last drawn position
    i,             \* the loop index the next iteration uses (permutation_fy, the
                   \* loops over positions, dequantize_positions)
    inv,           \* inverse_permutation: the vector being filled
    new,           \* inverse_permutation: the loop index the next iteration uses
    interleaved,   \* pack_interleave_permute: the byte buffer
    new_idx,       \* pack_interleave_permute: the slot the next iteration writes
    out,           \* the vector `out` being filled (pack_interleave_permute,
                   \* dequantize_positions, encode_normals_oct)
    result,        \* the PackedMesh returned, or NoMesh
    positions,     \* quantize_positions: the vertices, [f32; 3] each
    min,           \* aabb_min_max: [f32; 3]
    max,           \* aabb_min_max: [f32; 3]
    rng64,         \* quantize_positions: [f64; 3], after the zero-extent guard
    scale,         \* quantize_positions: [f32; 3]
    data,          \* quantize_positions: the i16 lanes pushed so far
    normals        \* encode_normals_oct: the normals, [f32; 3] each

packVars == <<pc, qpos, qnor, quv, indices, perm_seed, vertex_count, p, s, draw,
              r, i, inv, new, interleaved, new_idx, out, result>>

quantVars == <<positions, min, max, rng64, scale, data, normals>>

NoMesh == [returned |-> FALSE]

\* The values the quantizer's locals hold outside a call.
Unset == <<>>

\* No call of the quantizer or the normal encoder is running.
QuantIdle ==
    /\ positions = <<>>
    /\ min = Unset
    /\ max = Unset
    /\ rng64 = Unset
    /\ scale = Unset
    /\ data = <<>>
    /\ normals = <<>>

\* Lane j (0-based) of the sample attribute data: signed 16-bit positions and
\* unsigned 16-bit normal and uv lanes, different for every vertex.
PosLane(j) == ((j * 21013) % 65536) - 32768
NorLane(j) == (65535 - j * 4099) % 65536
UvLane(j) == (j * 771 + 255) % 65536

Seeds ==
    { Zero64,
      SEED_FALLBACK,
      <<240, 222, 188, 154, 120, 86, 52, 18>>,      \* 0x1234_5678_9ABC_DEF0
      <<190, 186, 254, 202, 239, 190, 173, 222>> }  \* 0xDEAD_BEEF_CAFE_BABE

IndexBuffers ==
    UNION { [1..m -> 0..MaxVertices] : m \in 0..MaxIndices }

\* The state before a call of pack_interleave_permute: its five arguments.
Init ==
    /\ pc = "assert"
    /\ \E v \in 0..MaxVertices, e \in 0..1, dn \in 0..1, du \in 0..1 :
        /\ qpos = [data |-> [j \in 1..(3 * v + e) |-> PosLane(j - 1)],
                   scale |-> <<1, 1, 1>>, offset |-> <<0, 0, 0>>]
        /\ qnor = [data |-> [j \in 1..(2 * v + dn) |-> NorLane(j - 1)]]
        /\ quv = [data |-> [j \in 1..(2 * v + du) |-> UvLane(j - 1)]]
    /\ indices \in {[some |-> FALSE, v |-> <<>>]}
                   \cup {[some |-> TRUE, v |-> b] : b \in IndexBuffers}
    /\ perm_seed \in Seeds
    /\ vertex_count = 0
    /\ p = <<>>
    /\ s = Zero64
    /\ draw = Zero64
    /\ r = 0
    /\ i = 0
    /\ inv = <<>>
    /\ new = 0
    /\ interleaved = <<>>
    /\ new_idx = 0
    /\ out = <<>>
    /\ result = NoMesh
    /\ QuantIdle

\* ------------------------------------------------------ permutation_fy
\* A generator that carries the multiplied value on as its state.
NextU64Carried(st) ==
    LET s1 == Xor64(st, Shr64(st, 12))
        s2 == Xor64(s1, Shl64(s1, 25))
        s3 == Xor64(s2, Shr64(s2, 27))
    IN  [state |-> WrappingMul(s3, MULTIPLIER), value |-> WrappingMul(s3, MULTIPLIER)]

\* One call of the closure next_u64 on state st: the state it leaves and the
\* value it returns.
NextU64(st) ==
    LET s1 == Xor64(st, Shr64(st, 12))
        s2 == Xor64(s1, Shl64(s1, 25))
        s3 == Xor64(s2, Shr64(s2, 27))
    IN  [state |-> s3, value |-> WrappingMul(s3, MULTIPLIER)]

\* A generator started from the seed as given, zero included.
SeedStateRaw(seed) == seed

\* The state the generator starts from.
SeedState(seed) == IF seed = Zero64 THEN SEED_FALLBACK ELSE seed

\* A swap that loses the element at a.
SwapLost(v, a, b) == [v EXCEPT ![a + 1] = v[b + 1]]

\* v.swap(a, b), 0-based.
Swap(v, a, b) == [v EXCEPT ![a + 1] = v[b + 1], ![b + 1] = v[a + 1]]

\* (0..n as u32).collect()
Identity(n) == [j \in 1..n |-> j - 1]

\* The drawn position for loop index idx.
DrawPosition(value, idx) == Mod64(AsUsize(value), idx + 1)

RECURSIVE FyRun(_, _, _)
\* permutation_fy(n, seed) after k iterations of its loop: the vector and the
\* generator state.
FyRun(n, seed, k) ==
    IF k = 0 THEN [p |-> Identity(n), s |-> SeedState(seed)]
    ELSE LET prev == FyRun(n, seed, k - 1)
             d == NextU64(prev.s)
         IN  [p |-> Swap(prev.p, n - k, DrawPosition(d.value, n - k)),
              s |-> d.state]

\* permutation_fy(n, seed), the vector returned.
permutation_fy(n, seed) == FyRun(n, seed, IF n >= 1 THEN n - 1 ELSE 0).p

\* The assertions without the one on the uv lanes.
AssertNormalsOnly ==
    /\ pc = "assert"
    /\ vertex_count' = Len(qpos.data) \div 3
    /\ pc' = IF Len(qnor.data) = vertex_count' * 2 THEN "fy_enter" ELSE "panic"
    /\ UNCHANGED quantVars
    /\ UNCHANGED <<qpos, qnor, quv, indices, perm_seed, p, s, draw, r, i, inv, new,
                   interleaved, new_idx, out, result>>

\* The assertions of pack_interleave_permute.
AssertLengths ==
    /\ pc = "assert"
    /\ vertex_count' = Len(qpos.data) \div 3
    /\ pc' = IF Len(qnor.data) = vertex_count' * 2 /\ Len(quv.data) = vertex_count' * 2
             THEN "fy_enter" ELSE "panic"
    /\ UNCHANGED quantVars
    /\ UNCHANGED <<qpos, qnor, quv, indices, perm_seed, p, s, draw, r, i, inv, new,
                   interleaved, new_idx, out, result>>

\* permutation_fy(vertex_count, perm_seed) up to its loop.
PermutationFyEnter ==
    /\ pc = "fy_enter"
    /\ p' = Identity(vertex_count)
    /\ s' = SeedState(perm_seed)
    /\ i' = IF vertex_count >= 1 THEN vertex_count - 1 ELSE 0
    /\ pc' = "fy"
    /\ UNCHANGED quantVars
    /\ UNCHANGED <<qpos, qnor, quv, indices, perm_seed, vertex_count, draw, r, inv,
                   new, interleaved, new_idx, out, result>>

\* One iteration of `for i in (1..n).rev()`.
PermutationFyStep ==
    /\ pc = "fy"
    /\ i >= 1
    /\ LET d == NextU64(s)
       IN  /\ s' = d.state
           /\ draw' = d.value
           /\ r' = DrawPosition(d.value, i)
           /\ p' = Swap(p, i, DrawPosition(d.value, i))
    /\ i' = i - 1
    /\ UNCHANGED quantVars
    /\ UNCHANGED <<pc, qpos, qnor, quv, indices, perm_seed, vertex_count, inv, new,
                   interleaved, new_idx, out, result>>

\* permutation_fy returns p; inverse_permutation(&perm) allocates inv.
PermutationFyReturn ==
    /\ pc = "fy"
    /\ i < 1
    /\ inv' = [j \in 1..Len(p) |-> 0]
    /\ new' = 0
    /\ pc' = "inv"
    /\ UNCHANGED quantVars
    /\ UNCHANGED <<qpos, qnor, quv, indices, perm_seed, vertex_count, p, s, draw, r,
                   i, interleaved, new_idx, out, result>>

\* ------------------------------------------------- inverse_permutation
\* The assignment with its two sides exchanged: inv[new] = old.
SetInverseExchanged(v, old, nw) == [v EXCEPT ![nw + 1] = old]

\* inv[old as usize] = new as u32
SetInverse(v, old, nw) == [v EXCEPT ![old + 1] = nw]

\* One iteration of `for (new, &old) in perm.iter().enumerate()`.
InversePermutationStep ==
    /\ pc = "inv"
    /\ new < Len(p)
    /\ inv' = SetInverse(inv, At(p, new), new)
    /\ new' = new + 1
    /\ UNCHANGED quantVars
    /\ UNCHANGED <<pc, qpos, qnor, quv, indices, perm_seed, vertex_count, p, s, draw,
                   r, i, interleaved, new_idx, out, result>>

\* inverse_permutation returns inv.
InversePermutationReturn ==
    /\ pc = "inv"
    /\ new >= Len(p)
    /\ pc' = "interleave"
    /\ interleaved' = <<>>
    /\ new_idx' = 0
    /\ UNCHANGED quantVars
    /\ UNCHANGED <<qpos, qnor, quv, indices, perm_seed, vertex_count, p, s, draw, r,
                   i, inv, new, out, result>>

\* -------------------------------------------- pack_interleave_permute
\* v.to_le_bytes() of an i16: two's complement, low byte first.
I16ToLeBytes(v) ==
    LET u == IF v < 0 THEN v + 65536 ELSE v
    IN  <<u % 256, u \div 256>>

\* v.to_le_bytes() of a u16.
U16ToLeBytes(v) == <<v % 256, v \div 256>>

\* A push that writes the low byte only.
push_i16_low(buf, v) == Append(buf, I16ToLeBytes(v)[1])

push_i16_le(buf, v) == buf \o I16ToLeBytes(v)
push_u16_le(buf, v) == buf \o U16ToLeBytes(v)

\* The body of the interleaving loop for one old_idx: seven pushes onto buf.
PushVertex(buf, old_idx) ==
    LET b1 == push_i16_le(buf, At(qpos.data, old_idx * 3 + 0))
        b2 == push_i16_le(b1, At(qpos.data, old_idx * 3 + 1))
        b3 == push_i16_le(b2, At(qpos.data, old_idx * 3 + 2))
        b4 == push_u16_le(b3, At(qnor.data, old_idx * 2 + 0))
        b5 == push_u16_le(b4, At(qnor.data, old_idx * 2 + 1))
        b6 == push_u16_le(b5, At(quv.data, old_idx * 2 + 0))
    IN  push_u16_le(b6, At(quv.data, old_idx * 2 + 1))

\* One iteration of `for new_idx in 0..vertex_count`.
InterleaveStep ==
    /\ pc = "interleave"
    /\ new_idx < vertex_count
    /\ interleaved' = PushVertex(interleaved, At(p, new_idx))
    /\ new_idx' = new_idx + 1
    /\ UNCHANGED quantVars
    /\ UNCHANGED <<pc, qpos, qnor, quv, indices, perm_seed, vertex_count, p, s, draw,
                   r, i, inv, new, out, result>>

\* The interleaving loop ends.
InterleaveDone ==
    /\ pc = "interleave"
    /\ new_idx >= vertex_count
    /\ out' = <<>>
    /\ pc' = "remap"
    /\ UNCHANGED quantVars
    /\ UNCHANGED <<qpos, qnor, quv, indices, perm_seed, vertex_count, p, s, draw, r,
                   i, inv, new, interleaved, new_idx, result>>

\* The index the remap loop reads next.
NextIndex == indices.v[Len(out) + 1]

\* A remap through perm instead of inv.
RemappedByPerm(idx) == At(p, idx)

\* inv[i as usize] for an index of the buffer.
Remapped(idx) == At(inv, idx)

\* One iteration of `for &i in idx`: inv[i as usize] is bounds-checked.
RemapStep ==
    /\ pc = "remap"
    /\ indices.some
    /\ Len(out) < Len(indices.v)
    /\ IF NextIndex < Len(inv)
       THEN /\ out' = Append(out, Remapped(NextIndex))
            /\ pc' = pc
       ELSE /\ out' = out
            /\ pc' = "panic"
    /\ UNCHANGED quantVars
    /\ UNCHANGED <<qpos, qnor, quv, indices, perm_seed, vertex_count, p, s, draw, r,
                   i, inv, new, interleaved, new_idx, result>>

\* The remap loop ends.
RemapDone ==
    /\ pc = "remap"
    /\ indices.some
    /\ Len(out) >= Len(indices.v)
    /\ pc' = "return"
    /\ UNCHANGED quantVars
    /\ UNCHANGED <<qpos, qnor, quv, indices, perm_seed, vertex_count, p, s, draw, r,
                   i, inv, new, interleaved, new_idx, out, result>>

\* No index buffer: (0..vertex_count as u32).collect()
RemapNone ==
    /\ pc = "remap"
    /\ ~indices.some
    /\ out' = Identity(vertex_count)
    /\ pc' = "return"
    /\ UNCHANGED quantVars
    /\ UNCHANGED <<qpos, qnor, quv, indices, perm_seed, vertex_count, p, s, draw, r,
                   i, inv, new, interleaved, new_idx, result>>

\* The PackedMesh is built and returned.
Return ==
    /\ pc = "return"
    /\ result' = [returned |-> TRUE,
                  interleaved |-> interleaved,
                  vertex_count |-> vertex_count,
                  indices |-> out,
                  pos_scale |-> qpos.scale,
                  pos_offset |-> qpos.offset,
                  perm_seed |-> perm_seed]
    /\ pc' = "done"
    /\ UNCHANGED quantVars
    /\ UNCHANGED <<qpos, qnor, quv, indices, perm_seed, vertex_count, p, s, draw, r,
                   i, inv, new, interleaved, new_idx, out>>

vars == <<packVars, quantVars>>

Next ==
    \/ AssertLengths
    \/ PermutationFyEnter
    \/ PermutationFyStep
    \/ PermutationFyReturn
    \/ InversePermutationStep
    \/ InversePermutationReturn
    \/ InterleaveStep
    \/ InterleaveDone
    \/ RemapStep
    \/ RemapDone
    \/ RemapNone
    \/ Return

Spec == Init /\ [][Next]_vars

\* ------------------------------------- inverse_permutation on its own
\* Every permutation of 0..n-1, as a vector.
PermutationsOf(n) ==
    { f \in [1..n -> 0..(n - 1)] : \A a, b \in 1..n : f[a] = f[b] => a = b }

\* The state at a call of inverse_permutation(perm), perm any permutation.
InitInv ==
    /\ pc = "inv"
    /\ \E n \in 0..MaxPermLen :
        /\ p \in PermutationsOf(n)
        /\ inv = [j \in 1..n |-> 0]
        /\ vertex_count = n
    /\ new = 0
    /\ qpos = [data |-> <<>>, scale |-> <<1, 1, 1>>, offset |-> <<0, 0, 0>>]
    /\ qnor = [data |-> <<>>]
    /\ quv = [data |-> <<>>]
    /\ indices = [some |-> FALSE, v |-> <<>>]
    /\ perm_seed = Zero64
    /\ s = Zero64
    /\ draw = Zero64
    /\ r = 0
    /\ i = 0
    /\ interleaved = <<>>
    /\ new_idx = 0
    /\ out = <<>>
    /\ result = NoMesh
    /\ QuantIdle

NextInv ==
    \/ InversePermutationStep
    \/ InversePermutationReturn

SpecInv == InitInv /\ [][NextInv]_vars

\* ------------------------------------------------------------- quantize
\* The literal 1e-k in a format: the nearest number of the format to 10^-k.
RECURSIVE PowerOfTen(_)
PowerOfTen(k) ==
    IF k <= 9 THEN BigFromInt(10^k)
    ELSE BigMul(PowerOfTen(k \div 2), PowerOfTen(k - (k \div 2)))

DecimalLiteral(fmt, k) == FDiv(fmt, FromInt(1), Finite(FALSE, PowerOfTen(k), 0))

\* n * 2^e, for an integer n.
Dyadic(n, e) ==
    IF n < 0 THEN Finite(TRUE, BigFromInt(-n), e) ELSE Finite(FALSE, BigFromInt(n), e)

\* 1.0 and 0.5.
One == FromInt(1)
Half == Dyadic(1, -1)

\* The generic clamp(x, lo, hi) on integers.
clamp(x, lo, hi) == IF x < lo THEN lo ELSE IF x > hi THEN hi ELSE x

\* clamp(x, lo, hi) on floats, and f64::clamp: a NaN passes through either.
FClamp(x, lo, hi) == IF FLt(x, lo) THEN lo ELSE IF FGt(x, hi) THEN hi ELSE x

\* The vertices the quantizer is run on: those of the crate's round-trip test
\* and two of a mesh several million units wide.
PositionSamples ==
    { <<Zero(FALSE), FromInt(1), FromInt(2)>>,
      <<FromInt(10), FromInt(20), FromInt(30)>>,
      <<FromInt(-1), Dyadic(1, -1), FromInt(100)>>,
      <<FromInt(5202520), FromInt(5202520), FromInt(5202520)>>,
      <<Dyadic(10229519, -1), Dyadic(10229519, -1), Dyadic(10229519, -1)>> }

Axes == 1..3

\* No call of the packer is running.
PackIdle ==
    /\ quv = [data |-> <<>>]
    /\ indices = [some |-> FALSE, v |-> <<>>]
    /\ perm_seed = Zero64
    /\ vertex_count = 0
    /\ p = <<>>
    /\ s = Zero64
    /\ draw = Zero64
    /\ r = 0
    /\ inv = <<>>
    /\ new = 0
    /\ interleaved = <<>>
    /\ new_idx = 0
    /\ result = NoMesh

packOnly == <<quv, indices, perm_seed, vertex_count, p, s, draw, r, inv, new,
              interleaved, new_idx, result>>

\* The state before quantize_positions(&positions).
InitQuant ==
    /\ pc = "quantize"
    /\ positions \in UNION { [1..n -> PositionSamples] : n \in 0..MaxPositions }
    /\ min = Unset
    /\ max = Unset
    /\ rng64 = Unset
    /\ scale = Unset
    /\ data = <<>>
    /\ normals = <<>>
    /\ qpos = [data |-> <<>>, scale |-> Unset, offset |-> Unset]
    /\ qnor = [data |-> <<>>]
    /\ i = 0
    /\ out = <<>>
    /\ PackIdle

\* aabb_min_max is entered: min and max start at the infinities.
AabbEnter ==
    /\ pc = "quantize"
    /\ min' = [a \in Axes |-> Inf(FALSE)]
    /\ max' = [a \in Axes |-> Inf(TRUE)]
    /\ i' = 0
    /\ pc' = "aabb"
    /\ UNCHANGED <<positions, rng64, scale, data, normals, qpos, qnor, out>>
    /\ UNCHANGED packOnly

\* One iteration of `for p in positions`, all three axes.
AabbStep ==
    /\ pc = "aabb"
    /\ i < Len(positions)
    /\ LET pt == At(positions, i)
       IN  /\ min' = [a \in Axes |-> IF FLt(pt[a], min[a]) THEN pt[a] ELSE min[a]]
           /\ max' = [a \in Axes |-> IF FGt(pt[a], max[a]) THEN pt[a] ELSE max[a]]
    /\ i' = i + 1
    /\ UNCHANGED <<pc, positions, rng64, scale, data, normals, qpos, qnor, out>>
    /\ UNCHANGED packOnly

\* The second loop of aabb_min_max on one axis: an extent below 1e-12 is
\* widened to 1e-6, in f32.
Widened(lo, hi) ==
    IF FLt(FAbs(FSub(F32, hi, lo)), DecimalLiteral(F32, 12))
    THEN FAdd(F32, lo, DecimalLiteral(F32, 6))
    ELSE hi

\* Lines 57-61: 1e-6 in place of an extent d below 1e-12.
Guarded(d) == IF FLt(FAbs(d), DecimalLiteral(F64, 12)) THEN DecimalLiteral(F64, 6) ELSE d

\* rng64 of one axis: max - min in f64, guarded.
Range(lo, hi) == Guarded(FSub(F64, hi, lo))

\* scale of one axis.
Scale(rng) == Cast(F32, FDiv(F64, rng, FromInt(65535)))

\* aabb_min_max returns (min, max); quantize_positions derives rng64 and scale.
AabbReturn ==
    /\ pc = "aabb"
    /\ i >= Len(positions)
    /\ max' = [a \in Axes |-> Widened(min[a], max[a])]
    /\ rng64' = [a \in Axes |-> Range(min[a], max'[a])]
    /\ scale' = [a \in Axes |-> Scale(rng64'[a])]
    /\ data' = <<>>
    /\ i' = 0
    /\ pc' = "lanes"
    /\ UNCHANGED <<positions, min, normals, qpos, qnor, out>>
    /\ UNCHANGED packOnly

\* The i16 pushed for coordinate pa of an axis with offset lo and extent rng.
QuantizeLane(pa, lo, rng) ==
    LET t == FMul(F64, FDiv(F64, FSub(F64, pa, lo), rng), FromInt(65535))
        q_u16 == RoundToInt(FClamp(t, Zero(FALSE), FromInt(65535)))
    IN  clamp(q_u16 - 32768, -32768, 32767)

\* One iteration of `for p in positions` of quantize_positions: three pushes.
QuantizeStep ==
    /\ pc = "lanes"
    /\ i < Len(positions)
    /\ data' = data \o [a \in Axes |-> QuantizeLane(At(positions, i)[a], min[a], rng64[a])]
    /\ i' = i + 1
    /\ UNCHANGED <<pc, positions, min, max, rng64, scale, normals, qpos, qnor, out>>
    /\ UNCHANGED packOnly

\* quantize_positions returns; dequantize_positions(&q) is entered.
QuantizeReturn ==
    /\ pc = "lanes"
    /\ i >= Len(positions)
    /\ qpos' = [data |-> data, scale |-> scale, offset |-> min]
    /\ out' = <<>>
    /\ i' = 0
    /\ pc' = "dequantize"
    /\ UNCHANGED <<positions, min, max, rng64, scale, data, normals, qnor>>
    /\ UNCHANGED packOnly

\* One coordinate of dequantize_positions: ((v + 32768.0) * scale) + offset in
\* f64, then `as f32`.
DequantizeLane(v, sc, off) ==
    Cast(F32, FAdd(F64, FMul(F64, FAdd(F64, FromInt(v), FromInt(32768)), sc), off))

\* One iteration of `for i in 0..(q.data.len() / 3)`.
DequantizeStep ==
    /\ pc = "dequantize"
    /\ i < Len(qpos.data) \div 3
    /\ out' = Append(out, [a \in Axes |->
                  DequantizeLane(At(qpos.data, i * 3 + a - 1), qpos.scale[a], qpos.offset[a])])
    /\ i' = i + 1
    /\ UNCHANGED <<pc, positions, min, max, rng64, scale, data, normals, qpos, qnor>>
    /\ UNCHANGED packOnly

\* dequantize_positions returns out.
DequantizeReturn ==
    /\ pc = "dequantize"
    /\ i >= Len(qpos.data) \div 3
    /\ pc' = "restored"
    /\ UNCHANGED <<positions, min, max, rng64, scale, data, normals, qpos, qnor, i, out>>
    /\ UNCHANGED packOnly

NextQuant ==
    \/ AabbEnter
    \/ AabbStep
    \/ AabbReturn
    \/ QuantizeStep
    \/ QuantizeReturn
    \/ DequantizeStep
    \/ DequantizeReturn

SpecQuant == InitQuant /\ [][NextQuant]_vars

\* --------------------------------------------------- encode_normals_oct
\* Line 93: len = (x*x + y*y + z*z).sqrt().
Length(n) ==
    FSqrt(F32, FAdd(F32, FAdd(F32, FMul(F32, n[1], n[1]), FMul(F32, n[2], n[2])),
                    FMul(F32, n[3], n[3])))

\* Line 94: n over len when len > 0, the zero vector otherwise.
Over(n, len) ==
    IF FGt(len, Zero(FALSE))
    THEN AsSeq([a \in Axes |-> FDiv(F32, n[a], len)])
    ELSE AsSeq([a \in Axes |-> Zero(FALSE)])

\* Lines 90-94: the normal scaled to unit length, the zero vector as it is.
Normalized(n) == Over(n, Length(n))

\* Lines 97-98: x and y over denom when denom > 0, zero otherwise.
ProjectedOver(v, denom) ==
    IF FGt(denom, Zero(FALSE))
    THEN AsSeq([c \in 1..2 |-> FDiv(F32, v[c], denom)])
    ELSE AsSeq([c \in 1..2 |-> Zero(FALSE)])

\* Lines 96-98: x and y over |x| + |y| + |z|.
Projected(v) ==
    ProjectedOver(v, FAdd(F32, FAdd(F32, FAbs(v[1]), FAbs(v[2])), FAbs(v[3])))

\* Lines 99-106: the fold of the lower hemisphere.
Folded(pr, z) ==
    IF FLt(z, Zero(FALSE))
    THEN AsSeq([c \in 1..2 |-> FMul(F32, FSub(F32, One, FAbs(pr[c])), FSignum(pr[c]))])
    ELSE pr

\* Lines 108-111: a component as a u16 lane.
OctLane(c) ==
    RoundToInt(FClamp(FMul(F32, FAdd(F32, FMul(F32, c, Half), Half), FromInt(65535)),
                      Zero(FALSE), FromInt(65535))) % 65536

\* Lines 108-111: the two lanes of the folded pair f.
Lanes(f) == AsSeq([c \in 1..2 |-> OctLane(f[c])])

\* Lines 96-111 for the normalized v.
Octahedral(v) == Lanes(Folded(Projected(v), v[3]))

\* The two lanes pushed for normal n.
EncodeOct(n) == Octahedral(Normalized(n))

\* The normals the encoder is run on: axis directions, the zero vector,
\* downward normals with a negative zero, and three off the axes.
NormalSamples ==
    { <<Zero(FALSE), Zero(FALSE), FromInt(1)>>,
      <<Zero(FALSE), Zero(FALSE), FromInt(-1)>>,
      <<Zero(FALSE), Zero(FALSE), Zero(FALSE)>>,
      <<FromInt(1), Zero(FALSE), Zero(FALSE)>>,
      <<Zero(FALSE), FromInt(1), Zero(FALSE)>>,
      <<Zero(TRUE), Zero(FALSE), FromInt(-1)>>,
      <<Zero(FALSE), Zero(TRUE), FromInt(-2)>>,
      <<FromInt(3), Zero(FALSE), FromInt(-4)>>,
      <<Zero(TRUE), FromInt(-1), FromInt(-1)>>,
      <<FromInt(1), FromInt(2), FromInt(-3)>> }

\* The state before encode_normals_oct(&normals).
InitOct ==
    /\ pc = "encode"
    /\ normals \in UNION { [1..n -> NormalSamples] : n \in 0..MaxNormals }
    /\ positions = <<>>
    /\ min = Unset
    /\ max = Unset
    /\ rng64 = Unset
    /\ scale = Unset
    /\ data = <<>>
    /\ qpos = [data |-> <<>>, scale |-> Unset, offset |-> Unset]
    /\ qnor = [data |-> <<>>]
    /\ i = 0
    /\ out = <<>>
    /\ PackIdle

\* One iteration of `for n in normals`: two pushes.
EncodeNormalStep ==
    /\ pc = "encode"
    /\ Len(out) < 2 * Len(normals)
    /\ out' = out \o EncodeOct(At(normals, Len(out) \div 2))
    /\ UNCHANGED <<pc, positions, min, max, rng64, scale, data, normals, qpos, qnor, i>>
    /\ UNCHANGED packOnly

\* encode_normals_oct returns QuantizedNormalsOct { data: out }.
EncodeNormalsReturn ==
    /\ pc = "encode"
    /\ Len(out) >= 2 * Len(normals)
    /\ qnor' = [data |-> out]
    /\ pc' = "encoded"
    /\ UNCHANGED <<positions, min, max, rng64, scale, data, normals, qpos, i, out>>
    /\ UNCHANGED packOnly

NextOct ==
    \/ EncodeNormalStep
    \/ EncodeNormalsReturn

SpecOct == InitOct /\ [][NextOct]_vars

\* ------------------------------------------------------------- claims
\* v holds each of 0..n-1 exactly once.
IsPermutation(v, n) ==
    /\ Len(v) = n
    /\ \A x \in 0..(n - 1) : Cardinality({j \in 1..n : v[j] = x}) = 1

\* permutation_fy has been entered and its vector exists.
Shuffled == pc \in {"fy", "inv", "interleave", "remap", "return", "done"}

\* The draws made so far by the running permutation_fy.
DrawsMade == IF vertex_count >= 1 THEN vertex_count - 1 - i ELSE 0

\* C2: permutation_fy(n, seed) holds a permutation of 0..n-1 of length n after
\* every swap and when it returns (the empty vector for n = 0), and every drawn
\* position r lies in 0..i for the loop index i it was drawn for.
C2_PermutationFyIsPermutation ==
    /\ Shuffled => IsPermutation(p, vertex_count)
    /\ (pc = "fy" /\ DrawsMade >= 1) => (r >= 0 /\ r <= i + 1)

\* C2 witness: a shuffle of three elements has made both draws and moved one.
C2_Witness ==
    /\ pc = "fy"
    /\ vertex_count = 3
    /\ i = 0
    /\ p # Identity(3)

\* C3: inverse_permutation(perm) of a permutation perm has perm's length,
\* inv[perm[i]] = i for every i and perm[inv[j]] = j for every j; while the
\* loop runs the first holds of every i already visited.
C3_InverseOfPermutation ==
    /\ pc = "inv" =>
        /\ Len(inv) = Len(p)
        /\ \A a \in 0..(new - 1) : At(inv, At(p, a)) = a
    /\ pc = "interleave" =>
        /\ Len(inv) = Len(p)
        /\ \A a \in 0..(Len(p) - 1) : At(inv, At(p, a)) = a
        /\ \A b \in 0..(Len(p) - 1) : At(p, At(inv, b)) = b

\* C3 witness: the inverse of a permutation that is not its own inverse has
\* been returned.
C3_Witness ==
    /\ pc = "interleave"
    /\ Len(p) = 4
    /\ inv # p
    /\ inv # Identity(4)

\* The u16 and i16 stored little-endian at byte offset off (0-based) of buf.
DecodeU16(buf, off) == buf[off + 1] + 256 * buf[off + 2]
DecodeI16(buf, off) ==
    IF DecodeU16(buf, off) >= 32768 THEN DecodeU16(buf, off) - 65536
    ELSE DecodeU16(buf, off)

\* The seven lanes of the 14-byte record of slot sl of buf.
DecodeRecord(buf, sl) ==
    << DecodeI16(buf, 14 * sl), DecodeI16(buf, 14 * sl + 2), DecodeI16(buf, 14 * sl + 4),
       DecodeU16(buf, 14 * sl + 6), DecodeU16(buf, 14 * sl + 8),
       DecodeU16(buf, 14 * sl + 10), DecodeU16(buf, 14 * sl + 12) >>

\* The seven quantized lanes of original vertex v.
OriginalVertex(v) ==
    << At(qpos.data, 3 * v), At(qpos.data, 3 * v + 1), At(qpos.data, 3 * v + 2),
       At(qnor.data, 2 * v), At(qnor.data, 2 * v + 1),
       At(quv.data, 2 * v), At(quv.data, 2 * v + 1) >>

\* C1: a returned mesh packed with index buffer I has as many indices as I, and
\* for every k the record at byte offset 14 * indices[k] decodes to the lanes of
\* original vertex I[k], with indices[k] the slot perm maps to I[k].
C1_RemapKeepsVertices ==
    (pc = "done" /\ indices.some) =>
        /\ Len(result.indices) = Len(indices.v)
        /\ \A k \in 1..Len(indices.v) :
            /\ indices.v[k] < vertex_count
            /\ result.indices[k] < vertex_count
            /\ At(p, result.indices[k]) = indices.v[k]
            /\ DecodeRecord(result.interleaved, result.indices[k])
                   = OriginalVertex(indices.v[k])

\* C1 witness: a mesh of three vertices shuffled by a 3-cycle, whose index
\* buffer <<0, 2>> has been remapped, is returned.
C1_Witness ==
    /\ pc = "done"
    /\ indices = [some |-> TRUE, v |-> <<0, 2>>]
    /\ p = <<1, 2, 0>>
    /\ result.indices = <<2, 1>>

\* C4: the buffer holds 14 bytes for every slot written so far, and a returned
\* mesh holds 14 * vertex_count bytes with vertex_count = qpos.data.len() / 3,
\* with or without an index buffer.
C4_BufferSize ==
    /\ pc = "interleave" => Len(interleaved) = 14 * new_idx
    /\ pc = "done" =>
        /\ result.vertex_count = Len(qpos.data) \div 3
        /\ Len(result.interleaved) = result.vertex_count * 14

\* C4 witness: a mesh of three vertices, from ten position lanes and no index
\* buffer, is returned.
C4_Witness ==
    /\ pc = "done"
    /\ Len(qpos.data) = 10
    /\ ~indices.some
    /\ Len(result.interleaved) = 42

\* The two length equalities the packer asserts.
LengthsMatch ==
    /\ Len(qnor.data) = 2 * (Len(qpos.data) \div 3)
    /\ Len(quv.data) = 2 * (Len(qpos.data) \div 3)

\* An index buffer is supplied and holds an index that is no vertex.
IndexOutOfRange ==
    /\ indices.some
    /\ \E k \in 1..Len(indices.v) : indices.v[k] >= Len(qpos.data) \div 3

\* C5 as stated: with matching lengths the call never aborts, whatever the
\* index buffer, and an abort leaves no output behind.
C5_OnlyLengthMismatchAborts ==
    /\ LengthsMatch => pc # "panic"
    /\ pc = "panic" => (~LengthsMatch /\ interleaved = <<>>)
    /\ pc = "done" => LengthsMatch

\* C5 amended: the call aborts only on mismatched lengths (before any output
\* is produced) or, with matching lengths, on an index that is no vertex;
\* otherwise it goes on to return a mesh.
C5_AbortCauses ==
    /\ pc = "panic" =>
        /\ result = NoMesh
        /\ \/ ~LengthsMatch /\ interleaved = <<>> /\ out = <<>> /\ p = <<>>
           \/ LengthsMatch /\ IndexOutOfRange
    /\ pc = "done" => (LengthsMatch /\ ~IndexOutOfRange /\ result.returned)
    /\ (LengthsMatch /\ ~IndexOutOfRange) => pc # "panic"

\* C5 witness: lengths match and the call has aborted on an index out of range.
C5_Witness ==
    /\ pc = "panic"
    /\ LengthsMatch
    /\ IndexOutOfRange
    /\ Len(interleaved) = 14 * vertex_count

\* C8: inside permutation_fy the generator state is never zero, before or after
\* a draw; a zero seed runs exactly as the seed 0x9E3779B97F4A7C15 does, state
\* by state and swap by swap, and returns the same permutation.
C8_GeneratorStateNonZero ==
    /\ pc = "fy" => s # Zero64
    /\ (pc = "fy" /\ perm_seed = Zero64) =>
           [p |-> p, s |-> s] = FyRun(vertex_count, SEED_FALLBACK, DrawsMade)
    /\ (pc = "inv" /\ perm_seed = Zero64) =>
           p = permutation_fy(vertex_count, SEED_FALLBACK)

\* C8 witness: a shuffle of three elements seeded with zero has made both draws.
C8_Witness ==
    /\ pc = "fy"
    /\ perm_seed = Zero64
    /\ vertex_count = 3
    /\ DrawsMade = 2
    /\ s = <<83, 17, 212, 87, 7, 146, 48, 88>>

\* Bit j (0 the lowest) of a u64, and 0 outside the word.
Bit(x, j) ==
    IF j < 0 \/ j > 63 THEN 0
    ELSE (x[(j \div 8) + 1] \div Pow2(j % 8)) % 2

\* Bit j of x ^ (x >> 12), of that ^ (that << 25), of that ^ (that >> 27).
StepOneBit(x, j) == (Bit(x, j) + Bit(x, j + 12)) % 2
StepTwoBit(x, j) ==
    (StepOneBit(x, j) + (IF j >= 25 THEN StepOneBit(x, j - 25) ELSE 0)) % 2
StepThreeBit(x, j) ==
    (StepTwoBit(x, j) + (IF j + 27 <= 63 THEN StepTwoBit(x, j + 27) ELSE 0)) % 2

RECURSIVE XorShiftByte(_, _, _)
\* Bits base + k .. base + 7 of the xor-shifted x, as a number.
XorShiftByte(x, base, k) ==
    IF k > 7 THEN 0
    ELSE StepThreeBit(x, base + k) + 2 * XorShiftByte(x, base, k + 1)

\* x after s ^= s >> 12; s ^= s << 25; s ^= s >> 27, assembled bit by bit.
XorShifted(x) == AsSeq([b \in 1..8 |-> XorShiftByte(x, 8 * (b - 1), 0)])

\* Hexadecimal digit d (0 the lowest) of a u64.
Nibble(x, d) == (x[(d \div 2) + 1] \div (IF d % 2 = 0 THEN 1 ELSE 16)) % 16

RECURSIVE NibbleColumn(_, _, _, _)
\* Sum of digit t of a times digit d - t of c, for t = 0..upto.
NibbleColumn(a, c, d, upto) ==
    IF upto < 0 THEN 0
    ELSE Nibble(a, upto) * Nibble(c, d - upto) + NibbleColumn(a, c, d, upto - 1)

RECURSIVE IsProductFrom(_, _, _, _, _)
\* Digits d..15 of y are those of a * c, given the carry into digit d.
IsProductFrom(y, a, c, d, carry) ==
    IF d > 15 THEN TRUE
    ELSE LET t == NibbleColumn(a, c, d, d) + carry
         IN  /\ Nibble(y, d) = t % 16
             /\ IsProductFrom(y, a, c, d + 1, t \div 16)

\* y = a * c modulo 2^64, digit by digit in base 16.
IsWrappingProduct(y, a, c) == IsProductFrom(y, a, c, 0, 0)

RECURSIVE DigitsMod(_, _, _)
\* The value of hexadecimal digits d..15 of x (digit d the lowest), modulo m.
DigitsMod(x, m, d) ==
    IF d > 15 THEN 0
    ELSE (DigitsMod(x, m, d + 1) * 16 + Nibble(x, d)) % m

\* A step of the shuffle loop: a draw and a swap.
IsDraw == pc = "fy" /\ pc' = "fy" /\ i' # i

\* What C9 says of a draw apart from the state carried on, xs being the
\* xor-shifted state: the value drawn is xs times 0x2545F4914F6CDD1D modulo
\* 2^64, the position is that value mod (i + 1), positions i and r are
\* swapped, and i steps down by one, from n - 1 to 1.
DrawnAsStated(xs) ==
    /\ IsWrappingProduct(draw', xs, MULTIPLIER)
    /\ i >= 1
    /\ i <= vertex_count - 1
    /\ DrawsMade = 0 => i = vertex_count - 1
    /\ i' = i - 1
    /\ r' = DigitsMod(draw', i + 1, 0)
    /\ p' = [p EXCEPT ![i + 1] = p[r' + 1], ![r' + 1] = p[i + 1]]

\* C9 as stated: every draw is made as stated and the multiplied value is the
\* state the next draw starts from; the loop ends with i = 0.
C9_ProductIsCarried ==
    [][/\ IsDraw => (s' = draw' /\ DrawnAsStated(XorShifted(s)))
       /\ (pc = "fy" /\ pc' = "inv") => i = 0]_vars

\* C9 amended: every draw is made as stated, and the state the next draw
\* starts from is the xor-shifted state, before the multiplication; the
\* product is the value drawn only.
C9_XorShiftedIsCarried ==
    [][/\ IsDraw => LET xs == XorShifted(s)
                     IN  s' = xs /\ DrawnAsStated(xs)
       /\ (pc = "fy" /\ pc' = "inv") => i = 0]_vars

\* C9 witness: seeded with 0x1234_5678_9ABC_DEF0, a shuffle of three elements
\* has made its second draw: the state and the value differ, and both are the
\* ones the generator's arithmetic gives.
C9_Witness ==
    /\ pc = "fy"
    /\ vertex_count = 3
    /\ DrawsMade = 2
    /\ perm_seed = <<240, 222, 188, 154, 120, 86, 52, 18>>
    /\ s = <<100, 95, 146, 224, 233, 121, 79, 63>>
    /\ draw = <<84, 34, 30, 231, 48, 247, 254, 66>>
    /\ r = 0
    /\ p = <<1, 2, 0>>

\* A format wide enough to hold every sum, difference and product of the
\* numbers compared below: arithmetic in it does not round.
Exact == [p |-> 2^12, emin |-> -(2^12), emax |-> 2^12]

\* x <= y as IEEE 754 compares.
FLe(x, y) == x.k # "nan" /\ y.k # "nan" /\ ~FLt(y, x)

\* scale has been derived by the running quantize_positions.
ScaleKnown == pc \in {"lanes", "dequantize", "restored"}

\* C6: for every input of N >= 0 positions, the empty one included, scale[a]
\* is finite and strictly positive on every axis.
C6_ScalePositive ==
    ScaleKnown => \A a \in Axes : scale[a].k = "fin" /\ ~scale[a].neg

\* |pa - ra| <= 0.5 * sc + 1e-6 in exact arithmetic, as
\* (|pa - ra| - 0.5 * sc) * 10^6 <= 1.
WithinTolerance(pa, ra, sc) ==
    LET diff == FAbs(FSub(Exact, pa, ra))
        excess == FSub(Exact, diff, FMul(Exact, Half, sc))
    IN  FLe(FMul(Exact, excess, FromInt(1000000)), One)

\* C7: every coordinate restored by dequantize_positions from the stored
\* level minus 32768 differs from the coordinate quantized by at most
\* 0.5 * scale[a] + 1e-6.
C7_RoundTripWithinHalfStep ==
    pc = "restored" =>
        /\ Len(out) = Len(positions)
        /\ \A k \in 1..Len(positions) : \A a \in Axes :
            /\ qpos.data[3 * (k - 1) + a] \in -32768..32767
            /\ WithinTolerance(positions[k][a], out[k][a], qpos.scale[a])

\* The normals encoded so far by the running encode_normals_oct.
EncodedNormals == IF pc \in {"encode", "encoded"} THEN 1..(Len(out) \div 2) ELSE {}

\* Lane c of encoded normal k.
LaneOf(k, c) == out[2 * (k - 1) + c]

\* The projection of the normalized v, and whether it points down.
Unfolded(v) == [p |-> Projected(v), down |-> FLt(v[3], Zero(FALSE))]

\* The projection of normal k, and whether the normal points down: what the
\* fold of the normal is decided by.
BeforeFold(k) == Unfolded(Normalized(normals[k]))

Down == <<Zero(FALSE), Zero(FALSE), FromInt(-1)>>
Origin == <<Zero(FALSE), Zero(FALSE), Zero(FALSE)>>

\* C10 as stated: the fold takes sign(0) = 0, so a component that projects to
\* zero below the equator is encoded as lane 32768, and (0, 0, -1) is encoded
\* as the zero vector is, (32768, 32768).
C10_FoldTakesSignOfZeroAsZero ==
    \A k \in EncodedNormals :
        LET b == BeforeFold(k)
        IN  /\ \A c \in 1..2 : (b.down /\ b.p[c].k = "zero") => LaneOf(k, c) = 32768
            /\ normals[k] \in {Down, Origin} =>
                   <<LaneOf(k, 1), LaneOf(k, 2)>> = <<32768, 32768>>

\* C10 amended: the fold takes f32::signum, which is 1 at +0 and -1 at -0: a
\* component that projects to +0 below the equator folds to 1 and is encoded
\* as lane 65535, one that projects to -0 folds to -1 and is encoded as lane 0;
\* (0, 0, -1) is encoded as (65535, 65535) and only the zero vector's
\* components, which are not folded, as (32768, 32768).
C10_FoldTakesSignumOfSignedZero ==
    \A k \in EncodedNormals :
        LET b == BeforeFold(k)
        IN  /\ \A c \in 1..2 : (b.down /\ b.p[c].k = "zero") =>
                   LaneOf(k, c) = IF b.p[c].neg THEN 0 ELSE 65535
            /\ normals[k] = Down => <<LaneOf(k, 1), LaneOf(k, 2)>> = <<65535, 65535>>
            /\ normals[k] = Origin => <<LaneOf(k, 1), LaneOf(k, 2)>> = <<32768, 32768>>

\* C10 witness: (0, 0, -1) and (-0, 0, -1) have been encoded and returned.
C10_Witness ==
    /\ pc = "encoded"
    /\ normals = <<Down, <<Zero(TRUE), Zero(FALSE), FromInt(-1)>> >>
    /\ qnor.data = <<65535, 65535, 0, 65535>>

====
